---- MODULE Spec2Model ----
(***************************************************************************)
(* A model of the todo service of src/main.go: the process lifecycle       *)
(* (init, main, the ListenAndServe goroutine, Shutdown), the four /todo    *)
(* handlers, the mapping between todo and todoModel, and the collection    *)
(* behind db.C(collectionName).                                            *)
(*                                                                         *)
(* Strings that the code inspects character by character (object ids in   *)
(* their hex form, URL parameters) are sequences of one-character strings. *)
(* An ObjectId is a sequence of 12 bytes.                                  *)
(*                                                                         *)
(* A handler takes one step per access to state shared between goroutines  *)
(* (the id counter, the collection); what it does locally before or after  *)
(* the access belongs to the same step. A step that finishes a request     *)
(* leaves the request and its response in `answered`.                      *)
(***************************************************************************)
EXTENDS Integers, Sequences, FiniteSets, TLC

VARIABLES
    mainPc,          \* where init()/main() stands
    servePc,         \* where the goroutine of main.go:70-75 stands
    exit,            \* [code, cause, aborted]; cause = "running" while it lives
    inShutdown,      \* srv.Shutdown has been called (listener closed)
    sigListening,    \* the interrupt was received while the server was serving
    store,           \* the documents of collection "todo", in natural order
    objectIdCounter, \* bson's process-wide id counter
    req,             \* per connection worker: the request it is handling
    answered,        \* the request the last step finished, with its response
    nposts,          \* valid POST requests accepted so far
    issued,          \* history of 201 responses: [id, title]
    overlapped       \* two create requests have been in flight together

vars == <<mainPc, servePc, exit, inShutdown, sigListening, store,
          objectIdCounter, req, answered, nposts, issued, overlapped>>

----------------------------------------------------------------------------
(* Bounds *)

\* connection goroutines serving requests at the same time
MaxWorkers == 2
\* valid POST requests the server accepts in a run; every other request is
\* unbounded
MaxPosts == 2

Workers == 1 .. MaxWorkers

----------------------------------------------------------------------------
(* Status codes used by the handlers *)

StatusProcessing == 102
StatusOK == 200
StatusCreated == 201
StatusBadRequest == 400

----------------------------------------------------------------------------
(* Sequences *)

Range(s) == {s[i] : i \in 1 .. Len(s)}

\* the orders in which an unsorted query may return the documents
Perms(s) ==
    LET n == Len(s)
        bij == {f \in [1 .. n -> 1 .. n] : \A i, j \in 1 .. n : f[i] = f[j] => i = j}
    IN  {[i \in 1 .. n |-> s[f[i]]] : f \in bij}

----------------------------------------------------------------------------
(* Identifier codec: bson.ObjectId, Hex, IsObjectIdHex, ObjectIdHex *)

HexDigits == <<"0", "1", "2", "3", "4", "5", "6", "7",
               "8", "9", "a", "b", "c", "d", "e", "f">>

UpperHexDigits == <<"A", "B", "C", "D", "E", "F">>

Whitespace == {" ", "\t", "\n", "\r"}

\* timestamp (4 bytes), machine id (3 bytes) and pid (2 bytes) of an id;
\* ids generated within one second by one process share them
ObjectIdPrefix == <<101, 71, 3, 0, 17, 34, 51, 9, 41>>

\* The uint32 counter is kept as its top byte (hi) and its low 24 bits (lo).
\* bson.NewObjectId: the prefix followed by the low 24 bits of the counter,
\* big endian
NewObjectId(i) ==
    ObjectIdPrefix
        \o <<(i.lo \div 65536) % 256, (i.lo \div 256) % 256, i.lo % 256>>

\* atomic.AddUint32(&objectIdCounter, 1), wrapping at 2^32
AddUint32(c) ==
    IF c.lo = 16777215
    THEN [hi |-> (c.hi + 1) % 256, lo |-> 0]
    ELSE [hi |-> c.hi, lo |-> c.lo + 1]

\* ObjectId.Hex: two lower-case hex digits per byte
Hex(id) ==
    [i \in 1 .. 2 * Len(id) |->
        LET b == id[(i + 1) \div 2]
        IN  IF i % 2 = 1 THEN HexDigits[(b \div 16) + 1]
                         ELSE HexDigits[(b % 16) + 1]]

\* the value of each hex digit, lower or upper case
HexValues ==
    [c \in Range(HexDigits) \cup Range(UpperHexDigits) |->
        IF c \in Range(HexDigits)
        THEN (CHOOSE i \in 1 .. 16 : HexDigits[i] = c) - 1
        ELSE (CHOOSE i \in 1 .. 6 : UpperHexDigits[i] = c) + 9]

\* encoding/hex fromHexChar: -1 for a character that is no hex digit
fromHexChar(c) == IF c \in DOMAIN HexValues THEN HexValues[c] ELSE -1

\* hex.DecodeString
DecodeString(s) ==
    IF Len(s) % 2 = 1 \/ \E i \in 1 .. Len(s) : fromHexChar(s[i]) = -1
    THEN [err |-> TRUE, bytes |-> <<>>]
    ELSE [err |-> FALSE,
          bytes |-> [k \in 1 .. Len(s) \div 2 |->
                        16 * fromHexChar(s[2 * k - 1]) + fromHexChar(s[2 * k])]]

\* bson.IsObjectIdHex
IsObjectIdHex(s) == Len(s) = 24 /\ ~DecodeString(s).err

\* bson.ObjectIdHex: panics on anything but 12 hex-encoded bytes
ObjectIdHex(s) ==
    LET d == DecodeString(s)
    IN  IF d.err \/ Len(d.bytes) # 12
        THEN [panic |-> TRUE, id |-> <<>>]
        ELSE [panic |-> FALSE, id |-> d.bytes]

RECURSIVE TrimLeft(_)
TrimLeft(s) ==
    IF s # <<>> /\ Head(s) \in Whitespace THEN TrimLeft(Tail(s)) ELSE s

RECURSIVE TrimRight(_)
TrimRight(s) ==
    IF s # <<>> /\ s[Len(s)] \in Whitespace
    THEN TrimRight(SubSeq(s, 1, Len(s) - 1))
    ELSE s

\* strings.TrimSpace
TrimSpace(s) == TrimRight(TrimLeft(s))

----------------------------------------------------------------------------
(* Wire and persisted forms of a task *)

\* the zero value of todo (var t todo)
ZeroTodo == [ID |-> <<>>, Title |-> "", Completed |-> FALSE, CreatedAt |-> 0]

\* the zero value of todoModel
ZeroModel == [ID |-> <<>>, Title |-> "", Completed |-> FALSE, CreatedAt |-> 0]

\* json.NewDecoder(r.Body).Decode(&t): absent fields keep their zero value
Decode(body) ==
    IF body.wellFormed
    THEN [err |-> FALSE,
          t |-> [ID |-> body.id, Title |-> body.title,
                 Completed |-> body.completed, CreatedAt |-> body.createdAt]]
    ELSE [err |-> TRUE, t |-> ZeroTodo]

\* a title check that rejects nothing
TitleMissing_never(t) == FALSE

\* the check of main.go:120
TitleMissing(t) == t.Title = ""

\* a record that does not copy Completed
todoModelOf_noCompleted(id, t) ==
    [ID |-> id, Title |-> t.Title, Completed |-> FALSE, CreatedAt |-> t.CreatedAt]

\* a record that does not copy Title
todoModelOf_noTitle(id, t) ==
    [ID |-> id, Title |-> "", Completed |-> t.Completed, CreatedAt |-> t.CreatedAt]

\* the composite literal of main.go:127-132
todoModelOf(id, t) ==
    [ID |-> id, Title |-> t.Title, Completed |-> t.Completed,
     CreatedAt |-> t.CreatedAt]

\* the composite literal of main.go:166-171
todoOf(m) ==
    [ID |-> Hex(m.ID), Title |-> m.Title, Completed |-> m.Completed,
     CreatedAt |-> m.CreatedAt]

\* var todoList []todo: a nil slice, which encodes as null
NilTodoList == [null |-> TRUE, items |-> <<>>]

\* todoList := []todo{}: an empty slice that is not nil
EmptyTodoList == [null |-> FALSE, items |-> <<>>]

\* append(todoList, x): the result is never nil
AppendTodo(l, x) == [null |-> FALSE, items |-> Append(l.items, x)]

\* the loop of main.go:165-172
RECURSIVE MapTodos(_, _)
MapTodos(l, todos) ==
    IF todos = <<>> THEN l
    ELSE MapTodos(AppendTodo(l, todoOf(Head(todos))), Tail(todos))

----------------------------------------------------------------------------
(* The collection *)

\* an insert that replaces the collection by the new document
Insert_overwrites(docs, m, ok) ==
    IF ~ok THEN [docs |-> docs, err |-> "store unavailable"]
    ELSE [docs |-> <<m>>, err |-> ""]

\* Collection.Insert: a store fault or a duplicate _id is an error and leaves
\* the collection alone
Insert(docs, m, ok) ==
    IF ~ok THEN [docs |-> docs, err |-> "store unavailable"]
    ELSE IF \E d \in Range(docs) : d.ID = m.ID
         THEN [docs |-> docs, err |-> "duplicate key"]
         ELSE [docs |-> Append(docs, m), err |-> ""]

\* Collection.RemoveId: mgo.ErrNotFound when no document has the id
RemoveId(docs, id, ok) ==
    IF ~ok THEN [docs |-> docs, err |-> "store unavailable"]
    ELSE IF ~\E d \in Range(docs) : d.ID = id
         THEN [docs |-> docs, err |-> "not found"]
         ELSE [docs |-> SelectSeq(docs, LAMBDA d : d.ID # id), err |-> ""]

----------------------------------------------------------------------------
(* Responses *)

NoPayload ==
    [keys |-> {}, message |-> "", error |-> "", todo_id |-> <<>>,
     data |-> [null |-> TRUE, items |-> <<>>]]

ErrorPayload(e) == [NoPayload EXCEPT !.keys = {"error"}, !.error = e]

\* rndr.JSON(w, status, err) with err the *json.SyntaxError of Decode: the
\* error value itself is marshalled, and Offset is its only exported field
DecodeErrorPayload == [NoPayload EXCEPT !.keys = {"Offset"}]

MessagePayload(m, e) ==
    [NoPayload EXCEPT !.keys = {"message", "error"}, !.message = m, !.error = e]

CreatedPayload(id) ==
    [NoPayload EXCEPT !.keys = {"message", "todo_id"},
                      !.message = "TODO created successfully", !.todo_id = id]

DataPayload(l) == [NoPayload EXCEPT !.keys = {"data"}, !.data = l]

\* rndr.JSON(w, status, v): the status line is written first; the body is
\* written when marshalling and the write succeed (rok)
Rendered(r, status, payload, rok) ==
    [r EXCEPT !.pc = "done", !.status = status, !.wrote = @ + 1,
              !.payload = IF rok THEN payload ELSE NoPayload,
              !.bodyWritten = rok,
              !.stages = Append(@, "Responded")]

\* a handler that returns without writing: net/http sends 200 and no body
Returned(r) ==
    [r EXCEPT !.pc = "done", !.status = StatusOK, !.wrote = @ + 1,
              !.stages = Append(@, "Responded")]

\* a handler that panics: net/http recovers, logs and closes the connection
Panicked(r) == [r EXCEPT !.pc = "done", !.panicked = TRUE]

Running == exit.cause = "running"

----------------------------------------------------------------------------
(* Requests *)

\* no request: the state of an idle worker, and of `answered` after a step
\* that finished no request
IdleReq ==
    [pc |-> "idle", kind |-> "none", urlId |-> <<>>,
     body |-> [wellFormed |-> FALSE, id |-> <<>>, title |-> "",
               completed |-> FALSE, createdAt |-> 0],
     t |-> ZeroTodo, tm |-> ZeroModel, err |-> "", todos |-> <<>>,
     status |-> 0, payload |-> NoPayload, bodyWritten |-> FALSE, wrote |-> 0,
     panicked |-> FALSE, calls |-> <<>>, stages |-> <<>>, prior |-> 0,
     named |-> FALSE]

Malformed == IdleReq.body

\* request bodies a client may send
Bodies ==
    { Malformed,
      [wellFormed |-> TRUE, id |-> <<>>, title |-> "", completed |-> TRUE,
       createdAt |-> 5],
      [wellFormed |-> TRUE, id |-> <<"7">>, title |-> "a", completed |-> TRUE,
       createdAt |-> 5],
      [wellFormed |-> TRUE, id |-> <<>>, title |-> "b", completed |-> FALSE,
       createdAt |-> 0] }

NotAnId == <<"n", "o", "t", "-", "a", "n", "-", "i", "d">>

ShortId == <<"1", "2", "3">>

\* the hex form of an id no document has
UnknownId == Hex([i \in 1 .. 12 |-> 171])

\* {id} values a client may send with DELETE: the ids of the stored documents,
\* plain and padded with blanks, an unknown id, and malformed ones
UrlIds ==
    {Hex(d.ID) : d \in Range(store)}
        \cup {<<" ">> \o Hex(d.ID) \o <<" ">> : d \in Range(store)}
        \cup {NotAnId, ShortId, UnknownId}

\* {id} values and bodies a client may send with PUT
UpdateIds == {Hex(d.ID) : d \in Range(store)} \cup {NotAnId, UnknownId}

UpdateBodies == {b \in Bodies : b.title # "b"}

\* a stored document has the id that the URL parameter names
Named(urlId) == \E d \in Range(store) : Hex(d.ID) = TrimSpace(urlId)

\* a request as the router hands it to its handler; named records, for the
\* properties below, whether its {id} named a stored document
Fresh(kind, urlId, body) ==
    [IdleReq EXCEPT !.kind = kind, !.urlId = urlId, !.body = body,
                    !.stages = <<"Received">>, !.named = Named(urlId)]

\* the server hands a new request to worker w, the first free one
Accepting(w) ==
    /\ Running
    /\ servePc = "serving"
    /\ ~inShutdown
    /\ req[w].pc = "idle"
    /\ \A v \in Workers : v < w => req[v].pc # "idle"

InFlight(w) == req[w].pc # "idle"

\* os.Exit: the process ends with `code`; its goroutines, and the requests
\* they were handling, end with it
Exit(code, cause) ==
    /\ exit' = [code |-> code, cause |-> cause,
                aborted |-> \E w \in Workers : InFlight(w)]
    /\ req' = [w \in Workers |-> IdleReq]
    /\ answered' = IdleReq

\* checkerr / log.Fatal / log.Fatalf
Fatal(cause) == Exit(1, cause)

\* the handler of worker w leaves its request as r: still in flight, or
\* finished (the worker is free again) unless rendering failed and the handler
\* passes the error to checkerr
Handled(w, r, fatal) ==
    IF fatal THEN Fatal("render")
    ELSE /\ exit' = exit
         /\ IF r.pc = "done"
            THEN req' = [req EXCEPT ![w] = IdleReq] /\ answered' = r
            ELSE req' = [req EXCEPT ![w] = r] /\ answered' = IdleReq

\* a step of main or of the serving goroutine: no request is touched
NoRequest == req' = req /\ answered' = IdleReq

Lifecycle == <<mainPc, servePc, inShutdown, sigListening>>

----------------------------------------------------------------------------
(* Process lifecycle *)

Init ==
    /\ mainPc = "init"
    /\ servePc = "none"
    /\ exit = [code |-> -1, cause |-> "running", aborted |-> FALSE]
    /\ inShutdown = FALSE
    /\ sigListening = FALSE
    /\ store = <<>>
    /\ objectIdCounter = [hi |-> 255, lo |-> 16777214]
    /\ req = [w \in Workers |-> IdleReq]
    /\ answered = IdleReq
    /\ nposts = 0
    /\ issued = <<>>
    /\ overlapped = FALSE

\* init(): mgo.Dial, checkerr
init_Dial ==
    /\ Running /\ mainPc = "init"
    /\ \E ok \in BOOLEAN :
        IF ok THEN mainPc' = "main" /\ exit' = exit /\ NoRequest
              ELSE mainPc' = mainPc /\ Fatal("dial")
    /\ UNCHANGED <<servePc, inShutdown, sigListening, store, objectIdCounter,
                   nposts, issued, overlapped>>

\* main up to the receive on stopChan: the goroutine is started
main_Start ==
    /\ Running /\ mainPc = "main"
    /\ mainPc' = "wait"
    /\ servePc' = "listen"
    /\ NoRequest
    /\ UNCHANGED <<exit, inShutdown, sigListening, store, objectIdCounter,
                   nposts, issued, overlapped>>

\* srv.ListenAndServe binds the port, or fails (also when Shutdown came first)
serve_Listen ==
    /\ Running /\ servePc = "listen"
    /\ \E bound \in BOOLEAN :
        IF bound /\ ~inShutdown
        THEN servePc' = "serving" /\ exit' = exit /\ NoRequest
        ELSE servePc' = "closed" /\ Fatal("listen")
    /\ UNCHANGED <<mainPc, inShutdown, sigListening, store, objectIdCounter,
                   nposts, issued, overlapped>>

\* main.go:77-80: the interrupt is received from stopChan and srv.Shutdown is
\* called with the 5 s context; the listener is closed
main_Shutdown ==
    /\ Running /\ mainPc = "wait"
    /\ mainPc' = "draining"
    /\ inShutdown' = TRUE
    /\ sigListening' = (servePc = "serving")
    /\ NoRequest
    /\ UNCHANGED <<servePc, exit, store, objectIdCounter, nposts, issued, overlapped>>

\* srv.Shutdown finds every connection idle and returns nil; main returns
main_ShutdownDone ==
    /\ Running /\ mainPc = "draining"
    /\ \A w \in Workers : ~InFlight(w)
    /\ mainPc' = "returned"
    /\ Exit(0, "main returned")
    /\ UNCHANGED <<servePc, inShutdown, sigListening, store, objectIdCounter,
                   nposts, issued, overlapped>>

\* the 5 seconds pass: srv.Shutdown returns ctx.Err(); checkerr
main_ShutdownTimeout ==
    /\ Running /\ mainPc = "draining"
    /\ Fatal("shutdown timeout")
    /\ UNCHANGED <<mainPc, servePc, inShutdown, sigListening, store,
                   objectIdCounter, nposts, issued, overlapped>>

\* ListenAndServe returns http.ErrServerClosed once Shutdown was called, and
\* the goroutine treats every non-nil error as fatal
serve_Closed ==
    /\ Running /\ servePc = "serving" /\ inShutdown
    /\ servePc' = "closed"
    /\ Fatal("listen")
    /\ UNCHANGED <<mainPc, inShutdown, sigListening, store, objectIdCounter,
                   nposts, issued, overlapped>>

----------------------------------------------------------------------------
(* createTodo *)

\* POST /todo, main.go:111-132: decode the body, check the title, take a new
\* id from the shared counter and build the record
create_Validate(w) ==
    /\ Accepting(w)
    /\ \E b \in Bodies, rok \in BOOLEAN :
        LET r == Fresh("create", <<>>, b)
            d == Decode(r.body)
        IN  IF d.err
            THEN /\ Handled(w, Rendered(r, StatusProcessing, DecodeErrorPayload,
                                        rok),
                            ~rok)
                 /\ UNCHANGED <<objectIdCounter, nposts, overlapped>>
            ELSE IF TitleMissing(d.t)
            THEN /\ Handled(w, Rendered([r EXCEPT !.t = d.t], StatusProcessing,
                                        ErrorPayload("The title cannot be empty"),
                                        rok),
                            FALSE)
                 /\ UNCHANGED <<objectIdCounter, nposts, overlapped>>
            ELSE /\ nposts < MaxPosts
                 /\ objectIdCounter' = AddUint32(objectIdCounter)
                 /\ Handled(w, [r EXCEPT
                                   !.pc = "insert", !.t = d.t,
                                   !.tm = todoModelOf(NewObjectId(objectIdCounter'),
                                                      d.t),
                                   !.stages = Append(@, "Validated")],
                            FALSE)
                 /\ nposts' = nposts + 1
                 /\ overlapped' = (overlapped
                                    \/ \E v \in Workers : req[v].kind = "create")
    /\ UNCHANGED <<Lifecycle, store, issued>>

\* main.go:134-147: the insert and the response to it
create_Insert(w) ==
    /\ Running /\ req[w].pc = "insert"
    /\ \E ok \in BOOLEAN, rok \in BOOLEAN :
        LET res == Insert(store, req[w].tm, ok)
            r == [req[w] EXCEPT !.err = res.err,
                                !.calls = Append(@, "Insert"),
                                !.stages = Append(@, "Processed")]
        IN  /\ store' = res.docs
            /\ IF res.err # ""
               THEN /\ Handled(w, Rendered(r, StatusProcessing,
                                    MessagePayload("Failed to create TODO", r.err),
                                    rok),
                               ~rok)
                    /\ issued' = issued
               ELSE /\ Handled(w, Rendered(r, StatusCreated,
                                           CreatedPayload(Hex(r.tm.ID)), rok),
                               FALSE)
                    /\ issued' = Append(issued,
                            [id |-> Hex(r.tm.ID), title |-> r.t.Title])
    /\ UNCHANGED <<Lifecycle, objectIdCounter, nposts, overlapped>>

----------------------------------------------------------------------------
(* fetchTodo *)

\* GET /todo, main.go:151-178: Find(bson.M{}).All(&todos), in the order the
\* store decides, then the error response or the mapped list. prior records
\* how many 201 responses preceded the request.
fetchTodo(w) ==
    /\ Accepting(w)
    /\ \E ok \in BOOLEAN, rok \in BOOLEAN :
        LET r == [Fresh("list", <<>>, Malformed) EXCEPT
                      !.prior = Len(issued), !.calls = <<"Find">>,
                      !.stages = <<"Received", "Validated", "Processed">>]
        IN  IF ok
            THEN \E result \in Perms(store) :
                    Handled(w, Rendered([r EXCEPT !.todos = result], StatusOK,
                                        DataPayload(MapTodos(EmptyTodoList, result)),
                                        rok),
                            ~rok)
            ELSE Handled(w, Rendered([r EXCEPT !.err = "store unavailable"],
                                     StatusProcessing,
                                     MessagePayload("Failed to fetch todo",
                                                    "store unavailable"), rok),
                         ~rok)
    /\ UNCHANGED <<Lifecycle, store, objectIdCounter, nposts, issued, overlapped>>

----------------------------------------------------------------------------
(* updateTodo *)

\* PUT /todo/{id}, main.go:181-183: the body of the handler is empty
updateTodo(w) ==
    /\ Accepting(w)
    /\ \E u \in UpdateIds, b \in UpdateBodies :
        Handled(w, Returned(Fresh("update", u, b)), FALSE)
    /\ UNCHANGED <<Lifecycle, store, objectIdCounter, nposts, issued, overlapped>>

----------------------------------------------------------------------------
(* deleteTodo *)

\* DELETE /todo/{id}, main.go:186-209: 400 when the trimmed id IS a valid
\* object id; otherwise bson.ObjectIdHex(id), then RemoveId
deleteTodo(w) ==
    /\ Accepting(w)
    /\ \E u \in UrlIds :
        LET r == Fresh("delete", u, Malformed)
            id == TrimSpace(u)
            dec == ObjectIdHex(id)
        IN  IF IsObjectIdHex(id)
            THEN /\ \E rok \in BOOLEAN :
                    Handled(w, Rendered(r, StatusBadRequest,
                                        ErrorPayload("Invalid URL request"), rok),
                            ~rok)
                 /\ store' = store
            ELSE IF dec.panic
            THEN /\ Handled(w, Panicked(r), FALSE)
                 /\ store' = store
            ELSE \E ok \in BOOLEAN, rok \in BOOLEAN :
                    LET res == RemoveId(store, dec.id, ok)
                        called == [r EXCEPT
                                      !.calls = Append(@, "RemoveId"),
                                      !.err = res.err,
                                      !.stages = @ \o <<"Validated", "Processed">>]
                    IN  /\ store' = res.docs
                        /\ IF res.err # ""
                           THEN Handled(w, Rendered(called, StatusProcessing,
                                            MessagePayload("Failed to remove TODO",
                                                           res.err), rok),
                                        ~rok)
                           ELSE Handled(w, Returned(called), FALSE)
    /\ UNCHANGED <<Lifecycle, objectIdCounter, nposts, issued, overlapped>>

----------------------------------------------------------------------------

Next ==
    \/ init_Dial
    \/ main_Start
    \/ serve_Listen
    \/ main_Shutdown
    \/ main_ShutdownDone
    \/ main_ShutdownTimeout
    \/ serve_Closed
    \/ \E w \in Workers :
        \/ create_Validate(w)
        \/ create_Insert(w)
        \/ fetchTodo(w)
        \/ updateTodo(w)
        \/ deleteTodo(w)

Spec == Init /\ [][Next]_vars

----------------------------------------------------------------------------
(* Properties *)

\* the last step finished a request of this kind; `answered` is that request
Answered(kind) == answered.kind = kind

StageRank(st) ==
    CASE st = "Received" -> 1
      [] st = "Validated" -> 2
      [] st = "Processed" -> 3
      [] st = "Responded" -> 4

\* C1: a delete whose trimmed id is not a valid object id is answered 400
\* {error: "Invalid URL request"} and issues no call to the store.
C1_InvalidIdRejected ==
    (Answered("delete") /\ ~IsObjectIdHex(TrimSpace(answered.urlId)))
        => /\ answered.status = StatusBadRequest
           /\ answered.bodyWritten
                => answered.payload = ErrorPayload("Invalid URL request")
           /\ answered.calls = <<>>

\* C2: a delete whose id is valid and names a stored record calls RemoveId,
\* answers 200 or 204, and the record is gone afterwards.
C2_ValidIdRemoved ==
    (Answered("delete") /\ IsObjectIdHex(TrimSpace(answered.urlId))
            /\ answered.named)
        => /\ answered.calls = <<"RemoveId">>
           /\ answered.status \in {StatusOK, 204}
           /\ ~Named(answered.urlId)

Requested(r) ==
    [ID |-> r.tm.ID, Title |-> r.body.title, Completed |-> r.body.completed,
     CreatedAt |-> r.body.createdAt]

\* the step that finishes a create which reached its insert
C4_InsertStep ==
    LET r == answered'
    IN  (r.kind = "create" /\ r.calls # <<>>)
        => IF r.err = ""
           THEN /\ store' = Append(store, Requested(r))
                /\ \A d \in Range(store) : d.ID # r.tm.ID
                /\ r.status = StatusCreated
                /\ r.bodyWritten
                    => /\ r.payload.keys = {"message", "todo_id"}
                       /\ Len(r.payload.todo_id) = 24
                       /\ Range(r.payload.todo_id) \subseteq Range(HexDigits)
                       /\ ObjectIdHex(r.payload.todo_id)
                            = [panic |-> FALSE, id |-> r.tm.ID]
           ELSE /\ store' = store
                /\ r.status = StatusProcessing
                /\ r.bodyWritten
                    => /\ r.payload.keys = {"message", "error"}
                       /\ r.payload.message = "Failed to create TODO"
                       /\ r.payload.todo_id = <<>>

\* C4: a create with a non-empty title whose insert succeeds adds exactly one
\* record, under a fresh id and with the request's title, completed and
\* createdAt, and answers 201 with todo_id the hex form of that id; when the
\* insert fails the answer is {message: "Failed to create TODO", error} and
\* carries no todo_id.
C4_CreatePersistsAndReports == [][C4_InsertStep]_vars

\* a create has answered the insert failure after another, with completed
\* set, was persisted and answered 201
C4_Witness ==
    /\ Answered("create") /\ answered.err # "" /\ answered.bodyWritten
    /\ Len(issued) = 1
    /\ \E d \in Range(store) : Hex(d.ID) = issued[1].id /\ d.Completed

\* C5: every persisted record has a non-empty title and no two persisted
\* records have the same id.
C5_StoreInvariant ==
    /\ \A i \in 1 .. Len(store) : store[i].Title # ""
    /\ \A i, j \in 1 .. Len(store) : store[i].ID = store[j].ID => i = j

\* two records are persisted and a delete has just been handled
C5_Witness ==
    /\ Len(store) >= 2
    /\ Answered("delete")

\* C6: concurrent creates whose inserts the store accepts all answer 201, with
\* pairwise different todo_id values, and a list request received after they
\* answered contains each of them.
C6_ConcurrentCreates ==
    /\ \A i, j \in 1 .. Len(issued) : issued[i].id = issued[j].id => i = j
    /\ (Answered("create") /\ answered.calls # <<>> /\ answered.err = "")
        => answered.status = StatusCreated
    /\ (Answered("list") /\ answered.status = StatusOK /\ answered.bodyWritten)
        => \A i \in 1 .. answered.prior :
            \E k \in 1 .. Len(answered.payload.data.items) :
                /\ answered.payload.data.items[k].ID = issued[i].id
                /\ answered.payload.data.items[k].Title = issued[i].title

\* a list has answered after two creates with distinct titles that overlapped
C6_Witness ==
    /\ Answered("list") /\ answered.status = StatusOK /\ answered.bodyWritten
    /\ answered.prior = 2
    /\ issued[1].title # issued[2].title
    /\ overlapped

\* C7: an update answers 400 when the id or the body is invalid, 404 when no
\* record has the id, and otherwise applies the fields to the record and
\* answers 200 with the updated task.
C7_UpdateContract ==
    Answered("update")
        => IF ~IsObjectIdHex(answered.urlId) \/ ~answered.body.wellFormed
           THEN answered.status = StatusBadRequest
           ELSE IF ~answered.named
           THEN answered.status = 404
           ELSE /\ answered.status = StatusOK
                /\ answered.calls # <<>>
                /\ answered.bodyWritten

\* C8: after an interrupt received while the server is listening, the process
\* exits with code 0 unless the grace period ran out, and with an error then.
\* (An exit through a handler's checkerr is left aside.)
C8_CleanShutdownExitsZero ==
    (~Running /\ sigListening /\ exit.cause # "render")
        => IF exit.cause = "shutdown timeout"
           THEN exit.code # 0
           ELSE exit.code = 0 /\ ~exit.aborted

\* C9: a list whose Find succeeds answers 200 with data the sequence of all
\* persisted records, in the order the store returned them, each in wire form
\* (id the hex form of the record id; title, completed, createdAt unchanged);
\* with no records data is the empty array, not null.
C9_ListMapsEveryRecord ==
    (Answered("list") /\ answered.err = "")
        => /\ Len(answered.todos) = Len(store)
           /\ \A d \in Range(store) : d \in Range(answered.todos)
           /\ answered.status = StatusOK
           /\ answered.bodyWritten
                => /\ answered.payload.keys = {"data"}
                   /\ ~answered.payload.data.null
                   /\ Len(answered.payload.data.items) = Len(answered.todos)
                   /\ \A i \in 1 .. Len(answered.todos) :
                        LET x == answered.payload.data.items[i]
                        IN  /\ x.Title = answered.todos[i].Title
                            /\ x.Completed = answered.todos[i].Completed
                            /\ x.CreatedAt = answered.todos[i].CreatedAt
                            /\ Range(x.ID) \subseteq Range(HexDigits)
                            /\ ObjectIdHex(x.ID)
                                = [panic |-> FALSE, id |-> answered.todos[i].ID]

\* a list has answered two records in an order other than the insertion order
C9_Witness ==
    /\ Answered("list") /\ answered.status = StatusOK /\ answered.bodyWritten
    /\ Len(answered.payload.data.items) = 2
    /\ answered.todos # store
    /\ Len(store) = 2

\* C10: a request moves only forward through Received, Validated, Processed,
\* Responded, and when its handler has finished it has been answered exactly
\* once, a failure with an error payload.
C10_ForwardToResponded ==
    /\ \A r \in Range(req) \cup {answered} :
        \A i \in 1 .. Len(r.stages) - 1 :
            StageRank(r.stages[i]) < StageRank(r.stages[i + 1])
    /\ ~Answered("none")
        => /\ answered.wrote = 1
           /\ answered.stages[Len(answered.stages)] = "Responded"
           /\ (answered.err # "" /\ answered.bodyWritten)
                => "error" \in answered.payload.keys

====
